---- MODULE Spec2Model ----
(***************************************************************************)
(* Model of src/src/index.tsx (react-notification-provider):               *)
(* createNotificationContext and the two realizations of Queue it returns, *)
(* the live hook useNotificationQueue (React state) and the mock           *)
(* createMockNotificationQueue (a closure over one array), together with   *)
(* the providers and the consumer hook useNotifications.                   *)
(*                                                                         *)
(* JavaScript arrays are sequences; array indices are kept 0-based in the  *)
(* helpers that take or return them (findIndex, splice), as in the source. *)
(***************************************************************************)
EXTENDS Integers, Sequences, FiniteSets, TLC

\* ------------------------------------------------------------------ bounds

\* Notification ids (strings, compared with ===) and opaque payloads.
Ids == {"a", "b", "c"}
Data == {"d1", "d2"}

\* Most state updates the live hook may have pending between two renders.
MaxPending == 2

\* Most mock queues a MockNotificationQueueProvider without a queue prop creates.
MaxMockQueues == 2

\* Most calls made while a callback holds a captured Queue object.
MaxStaleCalls == 3

\* Most calls of a recorded history.
MaxHistory == 4

VARIABLES
  provider,   \* the provider enclosing the consumer: "none", "NotificationQueueProvider", "MockNotificationQueueProvider"
  queueProp,  \* the provider's queue prop: "live" (a useNotificationQueue() result), "mock" (a createMockNotificationQueue() result), "absent"
  mockId,     \* identity of the mock queue object most recently created
  got,        \* what the consumer's last useNotifications() call produced
  queue,      \* useState state of useNotificationQueue as of the last render (line 170)
  pending,    \* state updates handed to setQueue and not yet processed by a render
  list,       \* the array closed over by createMockNotificationQueue (line 113), aliased by Queue.list (line 143)
  calls,      \* history: the live calls invoked since the last render, in invocation order
  batch,      \* history: the calls the most recent step applied to the observable list
  prev,       \* history: the observable list before the most recent step
  history,    \* history: every call made on the queue since it was created (kept where a claim needs it)
  captured    \* a live Queue object that a callback captured at some render and still holds

vars ==
  <<provider, queueProp, mockId, got, queue, pending, list, calls, batch, prev,
    history, captured>>

\* ------------------------------------------------------- values and helpers

\* Queued<Notification>
Queued(id, notification) == [id |-> id, data |-> notification]

\* A call on a Queue object, as a consumer invokes it.
AddCall(id, notification) == [op |-> "add", id |-> id, data |-> notification]
RemoveCall(id) == [op |-> "remove", id |-> id]
RemoveAllCall == [op |-> "removeAll"]

Null == [kind |-> "null"]
Undefined == [kind |-> "undefined"]
Nothing == [kind |-> "nothing"]
Threw == [kind |-> "threw", message |-> "Missing <NotificationQueueProvider>"]

\* No Queue object has been captured.
NoCapture == [obj |-> Nothing, sameArray |-> FALSE]

\* An entry of the recorded history: the call, and whether it was made
\* through the captured Queue object.
Logged(call, stale) == [call |-> call, stale |-> stale]

\* JavaScript truthiness of a context value: null and undefined are falsy, objects truthy.
Truthy(v) == v.kind \notin {"null", "undefined"}

\* Array.prototype.findIndex with the predicate n => n.id === id: the 0-based
\* index of the first match, -1 when there is none.
findIndex(arr, id) ==
  IF \E i \in 1..Len(arr) : arr[i].id = id
    THEN (CHOOSE i \in 1..Len(arr) :
            /\ arr[i].id = id
            /\ \A j \in 1..(i - 1) : arr[j].id # id) - 1
    ELSE -1

\* Array.prototype.slice(): a shallow copy.
slice(arr) == [i \in 1..Len(arr) |-> arr[i]]

\* Array.prototype.splice(start, deleteCount, ...items), 0 <= start <= length:
\* the array after the call.
splice(arr, start, deleteCount, items) ==
  LET n == IF start + deleteCount > Len(arr) THEN Len(arr) - start ELSE deleteCount
  IN SubSeq(arr, 1, start) \o items \o SubSeq(arr, start + n + 1, Len(arr))

\* Array.prototype.push(...items): the array after the call.
push(arr, items) == arr \o items

\* Array.prototype.filter with the predicate n => n.id !== id.
filter(arr, id) == SelectSeq(arr, LAMBDA n : n.id # id)

\* ------------------------------------------- useNotificationQueue (live)

\* Mutant of AddUpdater: the entry is pushed without looking for its id.
AddUpdater_AlwaysPush(q, id, notification) ==
  push(slice(q), <<Queued(id, notification)>>)

\* Mutant of AddUpdater: a new entry is put first (unshift) instead of last.
AddUpdater_Unshift(q, id, notification) ==
  LET matchIndex == findIndex(q, id)
      copy == slice(q)
  IN IF matchIndex > -1
       THEN splice(copy, matchIndex, 1, <<Queued(id, notification)>>)
       ELSE <<Queued(id, notification)>> \o copy

\* Mutant of AddUpdater: an id that is present keeps its old data.
AddUpdater_KeepOld(q, id, notification) ==
  LET matchIndex == findIndex(q, id)
      copy == slice(q)
  IN IF matchIndex > -1
       THEN copy
       ELSE push(copy, <<Queued(id, notification)>>)

\* The function add hands to setQueue (lines 179-196), applied to the state q.
AddUpdater(q, id, notification) ==
  LET matchIndex == findIndex(q, id)
      copy == slice(q)
  IN IF matchIndex > -1
       THEN splice(copy, matchIndex, 1, <<Queued(id, notification)>>)
       ELSE push(copy, <<Queued(id, notification)>>)

\* Mutant of RemoveUpdater: the filter predicate is inverted (n.id === id).
RemoveUpdater_Inverted(q, id) == SelectSeq(q, LAMBDA n : n.id = id)

\* The function remove hands to setQueue (line 204), applied to the state q.
RemoveUpdater(q, id) == filter(q, id)

\* Mutant of LiveAddAction: add computes the new array from the list of the
\* render it was created in and passes that value, not a function.
LiveAddAction_Stale(id, notification) ==
  [kind |-> "value", value |-> AddUpdater(queue, id, notification)]

\* What add, remove and removeAll pass to setQueue: add and remove pass a
\* function of the latest state, removeAll passes the value [].
LiveAddAction(id, notification) ==
  [kind |-> "updater", op |-> "add", id |-> id, data |-> notification]

LiveRemoveAction(id) == [kind |-> "updater", op |-> "remove", id |-> id]

LiveRemoveAllAction == [kind |-> "value", value |-> <<>>]

\* Mutant of QueueAdd: add computes the new array from the list of its own
\* Queue object and passes that value to setQueue.
QueueAdd_FromOwnList(q, id, notification) ==
  [kind |-> "value", value |-> AddUpdater(q.list, id, notification)]

\* q.add(id, notification) and q.remove(id) of the live Queue object q: what
\* they pass to setQueue. The closures read setQueue alone, nothing of the
\* render that created q (the `queue` of lines 179 and 204 is the updater's
\* parameter).
QueueAdd(q, id, notification) == LiveAddAction(id, notification)

QueueRemove(q, id) == LiveRemoveAction(id)

\* Mutant of AddUpdaterInput: add splices or pushes on the array it was given.
AddUpdaterInput_InPlace(q, id, notification) == AddUpdater(q, id, notification)

\* The array q that was handed to an updater, after the updater has run: add
\* changes only its copy queue.slice() (lines 183-194), filter of remove
\* builds a new array (line 204).
AddUpdaterInput(q, id, notification) ==
  LET copy == slice(q)
  IN q

RemoveUpdaterInput(q, id) == q

\* The array that was the state before a render, after the render has
\* processed the updates: only the first update is handed that array, the
\* later ones are handed the array the one before returned.
ArrayAfterRender(state, updates) ==
  IF updates = <<>> \/ Head(updates).kind # "updater"
    THEN state
    ELSE IF Head(updates).op = "add"
           THEN AddUpdaterInput(state, Head(updates).id, Head(updates).data)
           ELSE RemoveUpdaterInput(state, Head(updates).id)

\* useState's reducer: a function action is called with the latest state, any
\* other action is the new state.
basicStateReducer(state, action) ==
  IF action.kind = "updater"
    THEN IF action.op = "add"
           THEN AddUpdater(state, action.id, action.data)
           ELSE RemoveUpdater(state, action.id)
    ELSE action.value

\* A render of the hook processes the pending updates first to last.
RECURSIVE processUpdates(_, _)
processUpdates(state, updates) ==
  IF updates = <<>>
    THEN state
    ELSE processUpdates(basicStateReducer(state, Head(updates)), Tail(updates))

\* The object a render of useNotificationQueue returns (lines 172-218): its
\* list is the state of that render.
useNotificationQueue(state) == [kind |-> "live", list |-> state]

\* ------------------------------------- createMockNotificationQueue (mock)

\* The object createMockNotificationQueue returns (lines 115-144): its list
\* property is the closed-over array itself, so it is read through `list`.
createMockNotificationQueue(obj) == [kind |-> "mock", obj |-> obj]

\* Mutant of MockAddResult: an existing entry is dropped and the new one
\* pushed, so an update moves the entry to the end.
MockAddResult_MoveToEnd(l, id, notification) ==
  push(filter(l, id), <<Queued(id, notification)>>)

\* Mutant of MockAddResult: the copy is built but never written back into
\* the array that the list property refers to.
MockAddResult_NotWrittenBack(l, id, notification) == l

\* Mutant of MockAddResult: the copy is pushed first and the array emptied
\* afterwards.
MockAddResult_EmptiedLast(l, id, notification) ==
  LET copy2 == push(slice(l), <<Queued(id, notification)>>)
      pushed == push(l, copy2)
  IN splice(pushed, 0, Len(pushed), <<>>)

\* The closed-over array after add (lines 116-134).
MockAddResult(l, id, notification) ==
  LET matchIndex == findIndex(l, id)
      copy == slice(l)
      copy2 == IF matchIndex > -1
                 THEN splice(copy, matchIndex, 1, <<Queued(id, notification)>>)
                 ELSE push(copy, <<Queued(id, notification)>>)
      emptied == splice(l, 0, Len(l), <<>>)
  IN push(emptied, copy2)

\* Mutant of MockRemoveResult: the array is not emptied before the copy is
\* pushed back.
MockRemoveResult_NoClear(l, id) == push(l, filter(l, id))

\* The closed-over array after remove (lines 135-139).
MockRemoveResult(l, id) ==
  LET copy == filter(l, id)
      emptied == splice(l, 0, Len(l), <<>>)
  IN push(emptied, copy)

\* Mutant of MockRemoveAllResult: splice(0, 1) removes the first entry only.
MockRemoveAllResult_FirstOnly(l) == splice(l, 0, 1, <<>>)

\* The closed-over array after removeAll (lines 140-142).
MockRemoveAllResult(l) == splice(l, 0, Len(l), <<>>)

\* ------------------------------------------------ providers and consumer

\* props.queue of the provider.
QueuePropValue ==
  CASE queueProp = "live" -> useNotificationQueue(queue)
    [] queueProp = "mock" -> createMockNotificationQueue(0)
    [] OTHER -> Undefined

\* value of NotificationQueueContext.Provider in NotificationQueueProvider (line 60).
NotificationQueueProviderValue == QueuePropValue

\* Mutant of MockNotificationQueueProviderValue: the queue prop is passed on
\* as it is, with no default.
MockNotificationQueueProviderValue_NoDefault == QueuePropValue

\* Mutant of MockNotificationQueueProviderValue: the default queue is created
\* once and supplied again by every render.
MockNotificationQueueProviderValue_CreatedOnce ==
  IF Truthy(QueuePropValue) THEN QueuePropValue ELSE createMockNotificationQueue(1)

\* value of NotificationQueueContext.Provider in MockNotificationQueueProvider (line 83).
MockNotificationQueueProviderValue ==
  IF Truthy(QueuePropValue) THEN QueuePropValue ELSE createMockNotificationQueue(mockId)

\* useContext(NotificationQueueContext): the value of the nearest provider, or
\* the default given to createContext (null, lines 35-37).
useContext ==
  CASE provider = "NotificationQueueProvider" -> NotificationQueueProviderValue
    [] provider = "MockNotificationQueueProvider" -> MockNotificationQueueProviderValue
    [] OTHER -> Null

\* useNotifications (lines 42-48): what the call produces.
useNotifications ==
  LET q == useContext
  IN IF ~Truthy(q) THEN Threw ELSE q

\* The list an observer holding the Queue object q reads from q.list.
ReadList(q) == IF q.kind = "live" THEN q.list ELSE list

\* ----------------------------------------------------------- the program

\* The trees the types allow: no provider; NotificationQueueProvider, whose
\* queue prop is required; MockNotificationQueueProvider, whose queue prop is
\* optional. A given queue is a live one or a mock one.
Trees ==
  {<<"none", "absent">>,
   <<"NotificationQueueProvider", "live">>,
   <<"NotificationQueueProvider", "mock">>,
   <<"MockNotificationQueueProvider", "live">>,
   <<"MockNotificationQueueProvider", "mock">>,
   <<"MockNotificationQueueProvider", "absent">>}

Init ==
  /\ \E t \in Trees : provider = t[1] /\ queueProp = t[2]
  /\ mockId = IF provider = "MockNotificationQueueProvider" /\ queueProp = "absent"
                THEN 1 ELSE 0
  /\ got = Nothing
  /\ queue = <<>>
  /\ pending = <<>>
  /\ list = <<>>
  /\ calls = <<>>
  /\ batch = <<>>
  /\ prev = <<>>
  /\ history = <<>>
  /\ captured = NoCapture

\* A consumer component renders and calls useNotifications().
UseNotifications ==
  /\ got' = useNotifications
  /\ UNCHANGED <<provider, queueProp, mockId, queue, pending, list, calls, batch, prev>>
  /\ UNCHANGED <<history, captured>>

\* setQueue(action): the update is queued for the next render; the state of
\* the current render, and every list read from it, stays as it is.
Dispatch(action, call) ==
  /\ Len(pending) < MaxPending
  /\ pending' = Append(pending, action)
  /\ calls' = Append(calls, call)
  /\ batch' = <<>>
  /\ prev' = queue
  /\ UNCHANGED queue

\* A render of the component that owns the hook: useState processes the
\* pending updates, the hook returns a new Queue object, and the consumers
\* of the context render again with it.
RenderHook ==
  /\ pending # <<>>
  /\ queue' = processUpdates(queue, pending)
  /\ pending' = <<>>
  /\ calls' = <<>>
  /\ batch' = calls
  /\ prev' = queue

LiveAdd(id, notification) ==
  /\ got.kind = "live"
  /\ Dispatch(LiveAddAction(id, notification), AddCall(id, notification))
  /\ UNCHANGED <<provider, queueProp, mockId, got, list, history, captured>>

LiveRemove(id) ==
  /\ got.kind = "live"
  /\ Dispatch(LiveRemoveAction(id), RemoveCall(id))
  /\ UNCHANGED <<provider, queueProp, mockId, got, list, history, captured>>

LiveRemoveAll ==
  /\ got.kind = "live"
  /\ Dispatch(LiveRemoveAllAction, RemoveAllCall)
  /\ UNCHANGED <<provider, queueProp, mockId, got, list, history, captured>>

Render ==
  /\ RenderHook
  /\ UNCHANGED <<provider, queueProp, mockId, list, history, captured>>
  /\ got' = IF got.kind = "live" THEN useNotifications' ELSE got

\* A call on the mock queue: the closed-over array is changed in place.
MockStep(call, result) ==
  /\ got.kind = "mock"
  /\ list' = result
  /\ batch' = <<call>>
  /\ prev' = list
  /\ UNCHANGED <<provider, queueProp, mockId, got, queue, pending, calls>>
  /\ UNCHANGED <<history, captured>>

MockAdd(id, notification) ==
  MockStep(AddCall(id, notification), MockAddResult(list, id, notification))

\* Mutant of MockRemove: remove raises an error when no entry has the id, so
\* the call does not complete.
MockRemove_OnlyPresent(id) ==
  /\ findIndex(list, id) > -1
  /\ MockStep(RemoveCall(id), MockRemoveResult(list, id))

MockRemove(id) == MockStep(RemoveCall(id), MockRemoveResult(list, id))

MockRemoveAll == MockStep(RemoveAllCall, MockRemoveAllResult(list))

\* MockNotificationQueueProvider renders again, and the consumers render with
\* its value. Without a queue prop line 83 calls createMockNotificationQueue()
\* anew: the value is a new object over a new empty array, and the queue of
\* the render before is no longer supplied (prev keeps what it held). With a
\* queue prop the value is that same object again.
MockProviderRender ==
  /\ provider = "MockNotificationQueueProvider"
  /\ IF queueProp = "absent"
       THEN /\ mockId < MaxMockQueues
            /\ mockId' = mockId + 1
            /\ list' = <<>>
            /\ batch' = <<>>
            /\ prev' = list
       ELSE UNCHANGED <<mockId, list, batch, prev>>
  /\ UNCHANGED <<provider, queueProp, queue, pending, calls, history, captured>>
  /\ got' = IF got.kind \in {"live", "mock"} THEN useNotifications' ELSE got

Next ==
  \/ UseNotifications
  \/ \E id \in Ids, notification \in Data : LiveAdd(id, notification)
  \/ \E id \in Ids : LiveRemove(id)
  \/ LiveRemoveAll
  \/ Render
  \/ \E id \in Ids, notification \in Data : MockAdd(id, notification)
  \/ \E id \in Ids : MockRemove(id)
  \/ MockRemoveAll
  \/ MockProviderRender

Spec == Init /\ [][Next]_vars

\* ------------------------------------- a live and a mock queue, side by side

\* A test that creates a live queue and a mock queue, both empty, and makes
\* every call on both.
InitPair ==
  /\ provider = "none"
  /\ queueProp = "absent"
  /\ mockId = 0
  /\ got = Nothing
  /\ queue = <<>>
  /\ pending = <<>>
  /\ list = <<>>
  /\ calls = <<>>
  /\ batch = <<>>
  /\ prev = <<>>
  /\ history = <<>>
  /\ captured = NoCapture

PairAdd(id, notification) ==
  /\ Dispatch(LiveAddAction(id, notification), AddCall(id, notification))
  /\ list' = MockAddResult(list, id, notification)
  /\ UNCHANGED <<provider, queueProp, mockId, got, history, captured>>

PairRemove(id) ==
  /\ Dispatch(LiveRemoveAction(id), RemoveCall(id))
  /\ list' = MockRemoveResult(list, id)
  /\ UNCHANGED <<provider, queueProp, mockId, got, history, captured>>

PairRemoveAll ==
  /\ Dispatch(LiveRemoveAllAction, RemoveAllCall)
  /\ list' = MockRemoveAllResult(list)
  /\ UNCHANGED <<provider, queueProp, mockId, got, history, captured>>

PairRender ==
  /\ RenderHook
  /\ UNCHANGED <<provider, queueProp, mockId, got, list, history, captured>>

NextPair ==
  \/ \E id \in Ids, notification \in Data : PairAdd(id, notification)
  \/ \E id \in Ids : PairRemove(id)
  \/ PairRemoveAll
  \/ PairRender

SpecPair == InitPair /\ [][NextPair]_vars

\* ------------------- a live and a mock queue, side by side, with history

\* The same test, with every call recorded, for at most MaxHistory calls.
HistoryAdd(id, notification) ==
  /\ Len(history) < MaxHistory
  /\ Dispatch(LiveAddAction(id, notification), AddCall(id, notification))
  /\ list' = MockAddResult(list, id, notification)
  /\ history' = Append(history, Logged(AddCall(id, notification), FALSE))
  /\ UNCHANGED <<provider, queueProp, mockId, got, captured>>

HistoryRemove(id) ==
  /\ Len(history) < MaxHistory
  /\ Dispatch(LiveRemoveAction(id), RemoveCall(id))
  /\ list' = MockRemoveResult(list, id)
  /\ history' = Append(history, Logged(RemoveCall(id), FALSE))
  /\ UNCHANGED <<provider, queueProp, mockId, got, captured>>

HistoryRemoveAll ==
  /\ Len(history) < MaxHistory
  /\ Dispatch(LiveRemoveAllAction, RemoveAllCall)
  /\ list' = MockRemoveAllResult(list)
  /\ history' = Append(history, Logged(RemoveAllCall, FALSE))
  /\ UNCHANGED <<provider, queueProp, mockId, got, captured>>

HistoryRender ==
  /\ RenderHook
  /\ UNCHANGED <<provider, queueProp, mockId, got, list, history, captured>>

NextHistory ==
  \/ \E id \in Ids, notification \in Data : HistoryAdd(id, notification)
  \/ \E id \in Ids : HistoryRemove(id)
  \/ HistoryRemoveAll
  \/ HistoryRender

SpecHistory == InitPair /\ [][NextHistory]_vars

\* ------------------------------ a live queue and a captured Queue object

\* An app whose consumer has rendered under a NotificationQueueProvider with
\* a live queue; a callback of the consumer (a timer, a promise) may capture
\* the Queue object of some render and call it later, while other calls go
\* through the object of the latest render. At most MaxStaleCalls calls.
InitStale ==
  /\ provider = "NotificationQueueProvider"
  /\ queueProp = "live"
  /\ mockId = 0
  /\ got = useNotificationQueue(<<>>)
  /\ queue = <<>>
  /\ pending = <<>>
  /\ list = <<>>
  /\ calls = <<>>
  /\ batch = <<>>
  /\ prev = <<>>
  /\ history = <<>>
  /\ captured = NoCapture

\* The callback captures the Queue object of the current render; its list is
\* the array that is the hook's state.
StaleCapture ==
  /\ captured = NoCapture
  /\ got.kind = "live"
  /\ captured' = [obj |-> got, sameArray |-> TRUE]
  /\ UNCHANGED <<provider, queueProp, mockId, got, queue, pending, list, calls,
                 batch, prev, history>>

\* A call through the Queue object q.
StaleCall(q, stale, action, call) ==
  /\ q.kind = "live"
  /\ Len(history) < MaxStaleCalls
  /\ Dispatch(action, call)
  /\ history' = Append(history, Logged(call, stale))
  /\ UNCHANGED <<provider, queueProp, mockId, got, list, captured>>

CurrentAdd(id, notification) ==
  StaleCall(got, FALSE, QueueAdd(got, id, notification), AddCall(id, notification))

CurrentRemove(id) == StaleCall(got, FALSE, QueueRemove(got, id), RemoveCall(id))

CurrentRemoveAll == StaleCall(got, FALSE, LiveRemoveAllAction, RemoveAllCall)

CapturedAdd(id, notification) ==
  StaleCall(captured.obj, TRUE, QueueAdd(captured.obj, id, notification),
            AddCall(id, notification))

CapturedRemove(id) ==
  StaleCall(captured.obj, TRUE, QueueRemove(captured.obj, id), RemoveCall(id))

CapturedRemoveAll ==
  StaleCall(captured.obj, TRUE, LiveRemoveAllAction, RemoveAllCall)

\* A render: the state becomes a new array, the consumers get a new Queue
\* object, and the captured object keeps referring to the array it was
\* created with.
StaleRender ==
  /\ RenderHook
  /\ UNCHANGED <<provider, queueProp, mockId, list, history>>
  /\ got' = useNotifications'
  /\ captured' =
       IF captured.sameArray
         THEN [obj |-> [captured.obj EXCEPT !.list = ArrayAfterRender(queue, pending)],
               sameArray |-> FALSE]
         ELSE captured

NextStale ==
  \/ StaleCapture
  \/ \E id \in Ids, notification \in Data : CurrentAdd(id, notification)
  \/ \E id \in Ids : CurrentRemove(id)
  \/ CurrentRemoveAll
  \/ \E id \in Ids, notification \in Data : CapturedAdd(id, notification)
  \/ \E id \in Ids : CapturedRemove(id)
  \/ CapturedRemoveAll
  \/ StaleRender

SpecStale == InitStale /\ [][NextStale]_vars

\* ------------------------------------------------- vocabulary of the claims

HasId(l, id) == \E i \in 1..Len(l) : l[i].id = id

Contains(l, entry) == \E i \in 1..Len(l) : l[i] = entry

NoDuplicateIds(l) == \A i, j \in 1..Len(l) : l[i].id = l[j].id => i = j

\* The list of the queue in use: the rendered state of the live hook, or the
\* array of the mock.
CurrentList == IF queueProp = "live" THEN queue ELSE list

\* The most recent step applied exactly this one call.
Applied(call) == batch = <<call>>

\* C1: in every reachable state the list of the live queue and the list of
\* the mock queue hold at most one entry per id, and so does every list a
\* consumer reads from the Queue object it holds.
C1_UniqueIds ==
  /\ NoDuplicateIds(queue)
  /\ NoDuplicateIds(list)
  /\ got.kind \in {"live", "mock"} => NoDuplicateIds(ReadList(got))

\* C1 witness: the live queue holds three entries after an add of an id that
\* was already present.
C1_Witness ==
  /\ queueProp = "live"
  /\ Len(queue) = 3
  /\ \E k \in 1..Len(batch) : batch[k].op = "add" /\ HasId(prev, batch[k].id)

\* What add(id, data) turns the list old into, as the contract states it.
AddPost(old, new, id, data) ==
  IF HasId(old, id)
    THEN /\ Len(new) = Len(old)
         /\ \A i \in 1..Len(old) :
              new[i] = IF old[i].id = id THEN Queued(id, data) ELSE old[i]
    ELSE new = old \o <<Queued(id, data)>>

\* C2: a step that applied the single call add(id, data) replaced the data of
\* the entry with that id at its index and left every other entry as it was,
\* or, when no entry had that id, appended {id, data} as the last element.
C2_AddContract ==
  \A id \in Ids, data \in Data :
    Applied(AddCall(id, data)) => AddPost(prev, CurrentList, id, data)

\* C2 witness: add replaced the data of the middle entry of three.
C2_Witness ==
  /\ Len(prev) = 3
  /\ \E data \in Data :
       /\ Applied(AddCall(prev[2].id, data))
       /\ prev[2].data # data
       /\ CurrentList[2].data = data

\* The index of the first call of the batch that names id.
FirstCall(id) ==
  CHOOSE k \in 1..Len(batch) :
    batch[k].id = id /\ \A j \in 1..(k - 1) : batch[j].id # id

\* C3: after a step that applied only add calls, every entry that was present
\* keeps its index, the new ids follow them in the order of their first call,
\* and nothing else is in the list.
C3_AddOrder ==
  (batch # <<>> /\ \A k \in 1..Len(batch) : batch[k].op = "add") =>
    LET cur == CurrentList
    IN /\ Len(cur) >= Len(prev)
       /\ \A i \in 1..Len(prev) : cur[i].id = prev[i].id
       /\ \A i \in (Len(prev) + 1)..Len(cur) :
            /\ ~HasId(prev, cur[i].id)
            /\ \E k \in 1..Len(batch) : batch[k].id = cur[i].id
       /\ \A i, j \in (Len(prev) + 1)..Len(cur) :
            i < j => FirstCall(cur[i].id) < FirstCall(cur[j].id)
       /\ \A k \in 1..Len(batch) : HasId(cur, batch[k].id)

\* C3 witness: two adds with distinct new ids were applied to a list that was
\* not empty.
C3_Witness ==
  /\ Len(batch) = 2
  /\ batch[1].op = "add" /\ batch[2].op = "add"
  /\ batch[1].id # batch[2].id
  /\ prev # <<>>
  /\ ~HasId(prev, batch[1].id) /\ ~HasId(prev, batch[2].id)
  /\ Len(CurrentList) = 3

\* C4: a step that applied the single call remove(id) to a list containing id
\* deleted exactly that entry: the rest is the old list without that index.
C4_RemovePresent ==
  \A id \in Ids :
    (Applied(RemoveCall(id)) /\ HasId(prev, id)) =>
      /\ Len(CurrentList) = Len(prev) - 1
      /\ \E k \in 1..Len(prev) :
           /\ prev[k].id = id
           /\ CurrentList = SubSeq(prev, 1, k - 1) \o SubSeq(prev, k + 1, Len(prev))

\* C4 witness: remove deleted the middle entry of three.
C4_Witness ==
  /\ Len(prev) = 3
  /\ Applied(RemoveCall(prev[2].id))
  /\ CurrentList = <<prev[1], prev[3]>>

\* C5: a step that applied the single call remove(id) to a list without id
\* left the list as it was.
C5_RemoveAbsent ==
  \A id \in Ids :
    (Applied(RemoveCall(id)) /\ ~HasId(prev, id)) => CurrentList = prev

\* C5 witness: remove of an absent id on a list of two entries.
C5_Witness ==
  /\ Len(prev) = 2
  /\ \E id \in Ids : Applied(RemoveCall(id)) /\ ~HasId(prev, id)
  /\ Len(CurrentList) = 2

\* C6: once removeAll has taken effect the list is empty, whatever it held
\* before and whatever calls the same step applied before it.
C6_RemoveAllEmpties ==
  (batch # <<>> /\ batch[Len(batch)] = RemoveAllCall) => Len(CurrentList) = 0

\* C6 witness: removeAll emptied a list of three entries.
C6_Witness ==
  /\ Len(prev) = 3
  /\ batch # <<>> /\ batch[Len(batch)] = RemoveAllCall
  /\ CurrentList = <<>>

\* C7 as stated: after each call, the list read from the live queue and the
\* list read from the mock queue are the same sequence.
C7_Original == queue = list

\* C7 amended: whenever the live queue has no update pending, that is once the
\* render that follows the calls has happened, the list of the live queue and
\* the list of the mock queue are the same sequence of entries.
C7_SameAfterRender == pending = <<>> => queue = list

\* C7 witness: a render applied two calls and both lists hold the same three
\* entries.
C7_Witness ==
  /\ pending = <<>>
  /\ Len(batch) = 2
  /\ Len(queue) = 3
  /\ queue = list

\* In the batch, a later call than the k-th replaces or removes its entry.
Overwritten(k) ==
  \E j \in (k + 1)..Len(batch) :
    batch[j].op = "removeAll" \/ batch[j].id = batch[k].id

\* C8 as stated: in both realizations the first read of list after add(id,
\* data) has returned contains {id, data}.
C8_Original ==
  /\ got.kind = "mock" =>
       \A id \in Ids, data \in Data :
         Applied(AddCall(id, data)) => Contains(ReadList(got), Queued(id, data))
  /\ (got.kind = "live" /\ calls # <<>> /\ calls[Len(calls)].op = "add") =>
       Contains(ReadList(got),
                Queued(calls[Len(calls)].id, calls[Len(calls)].data))

\* C8 amended: on the mock the first read of list after add(id, data) contains
\* {id, data}; on the live queue the list read after the next render contains
\* {id, data}, provided no later call of the same batch replaced or removed
\* that entry.
C8_SeenAfterRender ==
  /\ got.kind = "mock" =>
       \A id \in Ids, data \in Data :
         Applied(AddCall(id, data)) => Contains(ReadList(got), Queued(id, data))
  /\ got.kind = "live" =>
       \A k \in 1..Len(batch) :
         (batch[k].op = "add" /\ ~Overwritten(k)) =>
           Contains(ReadList(got), Queued(batch[k].id, batch[k].data))

\* C8 witness: the consumer of a live queue reads, after a render, the new
\* data of an entry that was present before, with another call after the add.
C8_Witness ==
  /\ got.kind = "live"
  /\ Len(batch) = 2
  /\ batch[1].op = "add"
  /\ ~Overwritten(1)
  /\ HasId(prev, batch[1].id)
  /\ ~Contains(prev, Queued(batch[1].id, batch[1].data))
  /\ Contains(ReadList(got), Queued(batch[1].id, batch[1].data))

\* The contract's operations on a list.
Upsert(l, id, data) ==
  IF HasId(l, id)
    THEN [i \in 1..Len(l) |-> IF l[i].id = id THEN Queued(id, data) ELSE l[i]]
    ELSE Append(l, Queued(id, data))

Delete(l, id) == SelectSeq(l, LAMBDA e : e.id # id)

ApplyCall(l, call) ==
  CASE call.op = "add" -> Upsert(l, call.id, call.data)
    [] call.op = "remove" -> Delete(l, call.id)
    [] OTHER -> <<>>

RECURSIVE ApplyCalls(_, _)
ApplyCalls(l, cs) ==
  IF cs = <<>> THEN l ELSE ApplyCalls(ApplyCall(l, Head(cs)), Tail(cs))

\* C9: the list of a render of the live queue is the list of the previous
\* render with the calls invoked in between applied one after another, in
\* the order of their invocation.
C9_InvocationOrder ==
  (queueProp = "live" /\ batch # <<>>) => queue = ApplyCalls(prev, batch)

\* C9 witness: one render applied add(id) and then remove(id); the id is
\* gone, which the reverse order would not give.
C9_Witness ==
  /\ queueProp = "live"
  /\ Len(batch) = 2
  /\ batch[1].op = "add"
  /\ batch[2] = RemoveCall(batch[1].id)
  /\ ~HasId(prev, batch[1].id)
  /\ prev # <<>>
  /\ queue = prev

\* C10: useNotifications raises 'Missing <NotificationQueueProvider>' exactly
\* when no provider encloses the consumer; under a provider it returns the
\* Queue object the provider supplied.
C10_MissingProvider ==
  got # Nothing =>
    /\ got = Threw <=> provider = "none"
    /\ provider = "NotificationQueueProvider" =>
         got = NotificationQueueProviderValue /\ got.kind \in {"live", "mock"}
    /\ provider = "MockNotificationQueueProvider" =>
         got = MockNotificationQueueProviderValue /\ got.kind \in {"live", "mock"}

\* C10 witness: the consumer called useNotifications with no provider and the
\* call raised the error.
C10_Witness == provider = "none" /\ got = Threw

\* C11: in every reachable state in which a consumer holds a queue, add with
\* any id (new or present), remove with any id (present or absent) and
\* removeAll are all enabled: none has a precondition on the queue and none
\* ends in an error. (The live calls are enabled up to the model's MaxPending
\* updates between two renders.)
C11_Total ==
  /\ got.kind = "mock" =>
       /\ \A id \in Ids, data \in Data : ENABLED MockAdd(id, data)
       /\ \A id \in Ids : ENABLED MockRemove(id)
       /\ ENABLED MockRemoveAll
  /\ (got.kind = "live" /\ Len(pending) < MaxPending) =>
       /\ \A id \in Ids, data \in Data : ENABLED LiveAdd(id, data)
       /\ \A id \in Ids : ENABLED LiveRemove(id)
       /\ ENABLED LiveRemoveAll

\* C11 witness: a mock queue on which remove of an absent id has just
\* completed, holding an entry that add can name again and lacking an id that
\* remove can name again.
C11_Witness ==
  /\ got.kind = "mock"
  /\ \E id \in Ids : Applied(RemoveCall(id)) /\ ~HasId(prev, id)
  /\ \E id \in Ids : HasId(list, id) /\ \A data \in Data : ENABLED MockAdd(id, data)
  /\ \E id \in Ids : ~HasId(list, id) /\ ENABLED MockRemove(id)

\* C12: on a mock queue every call shows in the list property of the same
\* Queue object as soon as it returns, with no render in between: the list
\* read after a call is the list read before it with the call applied, and one
\* add on a new mock queue gives a list of length 1 whose element is {id, data}.
C12_MockListImmediate ==
  (got.kind = "mock" /\ batch # <<>>) =>
    /\ Len(batch) = 1
    /\ pending = <<>>
    /\ got = createMockNotificationQueue(mockId)
    /\ \A id \in Ids, data \in Data :
         batch[1] = AddCall(id, data) =>
           /\ HasId(ReadList(got), id)
           /\ prev = <<>> => (Len(ReadList(got)) = 1 /\ ReadList(got)[1] = Queued(id, data))
    /\ \A id \in Ids : batch[1] = RemoveCall(id) => ~HasId(ReadList(got), id)
    /\ batch[1] = RemoveAllCall => ReadList(got) = <<>>
    /\ \A id \in Ids, data \in Data :
         (batch[1].op # "removeAll" /\ batch[1].id # id) =>
           (Contains(prev, Queued(id, data)) <=> Contains(ReadList(got), Queued(id, data)))

\* C12 witness: one add on a new mock queue, read back through the same object.
C12_Witness ==
  /\ got.kind = "mock"
  /\ prev = <<>>
  /\ \E id \in Ids, data \in Data :
       Applied(AddCall(id, data)) /\ ReadList(got) = <<Queued(id, data)>>

\* No call has been made on the queue since it was created.
NewQueue == batch = <<>> /\ calls = <<>>

\* C13: a newly created queue, live or mock, has an empty list, and a step
\* that applied add(id, d) to an empty list leaves exactly <<{id, d}>>.
C13_EmptyThenOne ==
  /\ NewQueue =>
       /\ CurrentList = <<>>
       /\ got.kind \in {"live", "mock"} => ReadList(got) = <<>>
  /\ \A id \in Ids, data \in Data :
       (Applied(AddCall(id, data)) /\ prev = <<>>) => CurrentList = <<Queued(id, data)>>

\* C13 witness: the first render of a live queue after one add on the empty
\* queue.
C13_Witness ==
  /\ queueProp = "live"
  /\ prev = <<>>
  /\ \E id \in Ids, data \in Data :
       Applied(AddCall(id, data)) /\ queue = <<Queued(id, data)>>

\* C18: under a MockNotificationQueueProvider without a queue prop the
\* consumers hold the queue created by the provider's latest render, which is
\* empty until a call is made on it, whatever the queue of the render before
\* held; with a queue prop the consumers hold the prop's queue at every render.
C18_DefaultMockQueuePerRender ==
  (provider = "MockNotificationQueueProvider" /\ got.kind \in {"live", "mock"}) =>
    IF queueProp = "absent"
      THEN /\ got = createMockNotificationQueue(mockId)
           /\ batch = <<>> => ReadList(got) = <<>>
      ELSE /\ got = QueuePropValue
           /\ queueProp = "mock" => got = createMockNotificationQueue(0)

\* C18 witness: the provider without a queue prop rendered again after a
\* consumer had added entries; the consumer now holds the second queue, and
\* it is empty.
C18_Witness ==
  /\ provider = "MockNotificationQueueProvider"
  /\ queueProp = "absent"
  /\ mockId = 2
  /\ got = createMockNotificationQueue(2)
  /\ batch = <<>>
  /\ Len(prev) = 2
  /\ ReadList(got) = <<>>

\* The calls of the recorded history, and those of them that a render of
\* the live queue has processed.
CallsMade == [i \in 1..Len(history) |-> history[i].call]

CallsRendered == SubSeq(CallsMade, 1, Len(history) - Len(calls))

\* A call that affects id: add or remove of that id, or removeAll.
Affects(call, id) == call.op = "removeAll" \/ call.id = id

\* The index of the most recent call of h that affects id, 0 when there is none.
LastAffecting(h, id) ==
  IF \E k \in 1..Len(h) : Affects(h[k], id)
    THEN CHOOSE k \in 1..Len(h) :
           Affects(h[k], id) /\ \A j \in (k + 1)..Len(h) : ~Affects(h[j], id)
    ELSE 0

\* In l, exactly the ids whose most recent affecting call of h is an add are
\* present, each with the payload of that add.
LastWriteWins(l, h) ==
  \A id \in Ids :
    LET k == LastAffecting(h, id)
    IN IF k > 0 /\ h[k].op = "add"
         THEN /\ HasId(l, id)
              /\ \A i \in 1..Len(l) : l[i].id = id => l[i].data = h[k].data
         ELSE ~HasId(l, id)

\* C14: after any history of calls on a queue that started empty, an id is in
\* the list iff the most recent call affecting it is an add, and its data is
\* the payload of that add; for the mock with respect to the calls made, for
\* the live queue with respect to the calls its renders have processed.
C14_LastWriteWins ==
  /\ LastWriteWins(list, CallsMade)
  /\ LastWriteWins(queue, CallsRendered)

\* C14 witness: after add(a), add(b), remove(a), add(b) with a new payload,
\* only b is present, with the later payload, in both realizations.
C14_Witness ==
  /\ pending = <<>>
  /\ Len(history) = 4
  /\ \E a, b \in Ids :
       /\ a # b
       /\ CallsMade = <<AddCall(a, "d1"), AddCall(b, "d1"), RemoveCall(a), AddCall(b, "d2")>>
       /\ queue = <<Queued(b, "d2")>>
       /\ list = queue

\* The last call of h adds an id that an earlier call removed while it was
\* present and that no call has added since.
ReAdded(h) ==
  /\ Len(h) >= 2
  /\ h[Len(h)].op = "add"
  /\ LET r == LastAffecting(SubSeq(h, 1, Len(h) - 1), h[Len(h)].id)
     IN /\ r > 0
        /\ h[r].op # "add"
        /\ HasId(ApplyCalls(<<>>, SubSeq(h, 1, r - 1)), h[Len(h)].id)

\* The index the re-added id held just before the call that removed it.
IndexBeforeRemoval(h) ==
  LET id == h[Len(h)].id
      r == LastAffecting(SubSeq(h, 1, Len(h) - 1), id)
      before == ApplyCalls(<<>>, SubSeq(h, 1, r - 1))
  IN CHOOSE i \in 1..Len(before) : before[i].id = id

\* The re-added entry is the last one of l, after the entries that were
\* present when it was added.
ReAddedLast(l, h) ==
  ReAdded(h) =>
    l = ApplyCalls(<<>>, SubSeq(h, 1, Len(h) - 1))
          \o <<Queued(h[Len(h)].id, h[Len(h)].data)>>

\* C15 as stated: a re-added id is placed at the end of the list and not at
\* the index it held before its removal.
C15_Original ==
  /\ ReAddedLast(list, CallsMade)
  /\ ReAdded(CallsMade) => Len(list) # IndexBeforeRemoval(CallsMade)

\* C15 amended: an id that was removed and is then added again is placed at
\* the end of the list, after every entry currently present, wherever it stood
\* before its removal (the new index can equal the old one, as when it was
\* the only entry).
C15_ReAddedAtEnd ==
  /\ ReAddedLast(list, CallsMade)
  /\ ReAddedLast(queue, CallsRendered)

\* C15 witness: add(a), add(b), remove(a), add(a) leaves b first and a last
\* in both realizations; a stood first before its removal.
C15_Witness ==
  /\ pending = <<>>
  /\ Len(history) = 4
  /\ ReAdded(CallsMade)
  /\ IndexBeforeRemoval(CallsMade) = 1
  /\ Len(list) = 2
  /\ list[2].id = CallsMade[4].id
  /\ queue = list

\* The last two calls of h are the same call, and l is what the calls before
\* the second of them give.
SecondChangesNothing(l, h) ==
  (Len(h) >= 2 /\ h[Len(h)] = h[Len(h) - 1]) =>
    l = ApplyCalls(<<>>, SubSeq(h, 1, Len(h) - 1))

\* C19: making the same call with the same arguments twice in a row leaves
\* the list that making it once leaves, in both realizations; when a render
\* of the live queue applied only the second of the two calls, the list is
\* the one of the render before.
C19_Idempotent ==
  /\ SecondChangesNothing(list, CallsMade)
  /\ SecondChangesNothing(queue, CallsRendered)
  /\ (Len(CallsRendered) >= 2
        /\ CallsRendered[Len(CallsRendered)] = CallsRendered[Len(CallsRendered) - 1]
        /\ Len(batch) = 1) => queue = prev

\* C19 witness: add(id, d) twice in a row on a list holding another entry;
\* both realizations hold two entries.
C19_Witness ==
  /\ pending = <<>>
  /\ Len(history) = 3
  /\ CallsMade[2].op = "add"
  /\ CallsMade[3] = CallsMade[2]
  /\ CallsMade[1].op = "add"
  /\ CallsMade[1].id # CallsMade[2].id
  /\ Len(queue) = 2
  /\ queue = list

\* C16: in the live realization a call made through a Queue object captured
\* at an earlier render works on the latest state: the rendered list is the
\* result of all calls processed so far, in invocation order, whichever object
\* each was made through, and the pending updates lead to the result of all
\* calls made.
C16_NoLostUpdates ==
  /\ queue = ApplyCalls(<<>>, CallsRendered)
  /\ processUpdates(queue, pending) = ApplyCalls(<<>>, CallsMade)

\* C16 witness: the Queue object of the first render (empty list) was
\* captured; two adds through later objects were rendered; a third add through
\* the captured object was rendered on its own, and all three entries are
\* there.
C16_Witness ==
  /\ pending = <<>>
  /\ Len(history) = 3
  /\ ~history[1].stale /\ ~history[2].stale /\ history[3].stale
  /\ captured.obj.kind = "live"
  /\ captured.obj.list = <<>>
  /\ batch = <<history[3].call>>
  /\ Len(prev) = 2
  /\ Len(queue) = 3

\* C17: a list snapshot, once a consumer holds it, never changes: no call
\* and no render alters the contents of the captured Queue object's list.
C17_SnapshotUnchanged ==
  [][captured.obj.kind = "live" => captured'.obj = captured.obj]_vars

\* C17 witness: a captured snapshot of one entry is still as it was after a
\* later render replaced that entry's data and added another.
C17_Witness ==
  /\ captured.obj.kind = "live"
  /\ ~captured.sameArray
  /\ Len(captured.obj.list) = 1
  /\ Len(queue) = 2
  /\ queue[1].id = captured.obj.list[1].id
  /\ queue[1].data # captured.obj.list[1].data
  /\ Len(batch) = 2

====
